---- MODULE Spec2Model ----
(***************************************************************************)
(* Model of generar_mapas_sismo.py: main() reads one event and its         *)
(* intensity reports from SQLite, computes epicentral distance, the        *)
(* piecewise theoretical intensity (IMM_t) and the absolute difference,    *)
(* builds two folium maps and saves them as two HTML files.                *)
(*                                                                         *)
(* Units (fixed point, all integers):                                      *)
(*   lat, lon      hundredths of a degree                                  *)
(*   R_km          hundredths of a kilometre                               *)
(*   magnitude     tenths of a magnitude unit                              *)
(*   val1, val2    millionths of an intensity unit                         *)
(*   log10         ten-thousandths                                         *)
(***************************************************************************)
EXTENDS Integers, Sequences, FiniteSets

VARIABLES
    args_event_id,   \* args.event_id ("None" when --event-id is not given)
    eventinfo,       \* rows of table eventinfo, in rowid order
    intensityreports,\* rows of table intensityreports
    pc,              \* position of main
    conn,            \* the sqlite connection: "none", "open" or "closed"
    cierres,         \* number of times conn.close() has run
    evento,          \* dict returned by leer_evento
    df,              \* the DataFrame: a sequence of rows
    tramo1,          \* mask computed at line 62 of the last call
    m_int,           \* map built by mapa_intensidades
    m_dif,           \* map built by mapa_diferencias
    idx,             \* position of the running builder's for loop
    archivos,        \* out1 and out2 on disk
    salida,          \* what print wrote
    error,           \* exception leaving main ("none" when there is none)
    llamadas         \* names of the functions main has called so far

vars == <<args_event_id, eventinfo, intensityreports, pc, conn, cierres,
          evento, df, tramo1, m_int, m_dif, idx, archivos, salida, error,
          llamadas>>

----------------------------------------------------------------------------
(* Bounds of the model *)

MaxReports == 2

(* Python's None and SQL's NULL in an integer column *)
None == "None"
NULL == -999999

----------------------------------------------------------------------------
(* Arithmetic helpers *)

Abs(x) == IF x < 0 THEN -x ELSE x
Max(a, b) == IF a >= b THEN a ELSE b
Min(a, b) == IF a <= b THEN a ELSE b

RECURSIVE SqrtSearch(_, _, _)
SqrtSearch(n, lo, hi) ==
    IF hi - lo <= 1 THEN lo
    ELSE LET mid == (lo + hi) \div 2
         IN  IF mid * mid <= n THEN SqrtSearch(n, mid, hi)
                               ELSE SqrtSearch(n, lo, mid)

(* floor of the square root of n, 0 <= n < 2^31 *)
ISqrt(n) == SqrtSearch(n, 0, 46341)

(* fixed-point scale of the mantissa and number of binary digits of log10 *)
LogScale == 4000
LogBits == 14

RECURSIVE Pow(_, _)
Pow(b, e) == IF e = 0 THEN 1 ELSE b * Pow(b, e - 1)

RECURSIVE Characteristic(_, _, _)
Characteristic(rc, p, k) ==
    IF rc >= p * 10 THEN Characteristic(rc, p * 10, k + 1) ELSE <<p, k>>

RECURSIVE MantissaBits(_, _, _)
MantissaBits(m, acc, n) ==
    IF n = 0 THEN acc
    ELSE LET sq == (m * m) \div LogScale
         IN  IF sq >= 10 * LogScale
             THEN MantissaBits(sq \div 10, 2 * acc + 1, n - 1)
             ELSE MantissaBits(sq, 2 * acc, n - 1)

(* np.log10 of a distance R_safe, in ten-thousandths.  R_safe = 0 stands   *)
(* for the replacement value 1e-6 km of line 58, whose log10 is exactly -6 *)
(* The mantissa is squared LogBits times, one binary digit of the          *)
(* logarithm per squaring; the result is within 3e-4 of log10 for          *)
(* distances from 0.01 km to 1870 km, the range 32-bit integers allow in   *)
(* val2.                                                                   *)
Log10(rs) ==
    IF rs <= 0 THEN -60000
    ELSE LET pk == Characteristic(rs, 1, -2)
             m  == (rs * LogScale) \div pk[1]
             B  == MantissaBits(m, 0, LogBits)
         IN  pk[2] * 10000 + (B * 10000) \div Pow(2, LogBits)

----------------------------------------------------------------------------
(* calcular_distancias, line 54: sqrt(dlat^2 + dlon^2) * 110 *)
calcular_distancias(lat, lon, lat_sis, lon_sis) ==
    LET s == (lat - lat_sis) * (lat - lat_sis) + (lon - lon_sis) * (lon - lon_sis)
    IN  (11 * ISqrt(s * 10000)) \div 10

(* line 58: R_safe = np.where(R_km > 0, R_km, 1e-6); 1e-6 km is below the  *)
(* resolution of the model and is kept as 0 (see Log10)                    *)
R_safe(R_km) == IF R_km > 0 THEN R_km ELSE 0

(* variant of Tramo1 with the threshold one unit higher *)
Tramo1Mutante(imm_obs) == imm_obs * 100 <= 522
(* line 62: tramo1 = imm_obs <= 4.22 *)
Tramo1(imm_obs) == imm_obs * 100 <= 422

(* line 65 *)
val1(R_km, M) ==
    3598000 - (4805 * R_safe(R_km)) \div 100 - 53 * Log10(R_safe(R_km)) + 29500 * M

(* line 66 *)
val2(R_km, M) ==
    4002000 - (11470 * R_safe(R_km)) \div 100 - 268 * Log10(R_safe(R_km)) + 94000 * M

(* np.floor of a value in millionths, line 69 *)
Floor(v) == v \div 1000000

(* variant of Clip without the lower limit *)
ClipMutante(v) == v

(* np.clip(imm_t, 1, None), line 70 *)
Clip(v) == Max(v, 1)

(* imm_teorica_por_tramos for one element of the arrays, lines 56-71 *)
imm_teorica_por_tramos(R_km, M, imm_obs) ==
    Clip(Floor(IF Tramo1(imm_obs) THEN val1(R_km, M) ELSE val2(R_km, M)))

----------------------------------------------------------------------------
(* Lookup tables, lines 76-86 *)

COLOR_MAP ==
    <<"#0000A6", "#49FE03", "#FFFF01", "#FFC800", "#FFDE01",
      "#FFBD01", "#FF9C01", "#FF7C01", "#C73E10", "#90001F">>

CAPA_INTENSIDAD ==
    <<"No sentido", "Muy debil", "Leve", "Moderado", "Poco fuerte",
      "Fuerte", "Muy fuerte", "Destructivo", "Muy destructivo", "Desastroso">>

(* variant of Nivel that clamps at 9 *)
NivelMutante(i) == Max(1, Min(9, i))

(* k = max(1, min(10, int(i))), lines 89 and 170 *)
Nivel(i) == Max(1, Min(10, i))

(* color_por_intensidad, lines 88-90 *)
color_por_intensidad(i) == COLOR_MAP[Nivel(i)]

(* variant of Size without the cap of 5 steps *)
SizeMutante(intensity) == 2 * (3 + Max(0, intensity - 3))

(* size = int(2 * (3 + max(0, min(5, int(r.intensity) - 3)))), lines 171, 224 *)
Size(intensity) == 2 * (3 + Max(0, Min(5, intensity - 3)))

(* the three keys of capas_diff, lines 206-210 *)
ClavesDif == <<"dif = 0", "dif = 1", "dif >= 2">>
NombresDif == <<"diferencia = 0", "diferencia = 1", "diferencia >= 2">>

(* variant of CapaDif that never selects the third layer *)
CapaDifMutante(d) == IF d = 0 THEN 1 ELSE 2

(* capa = "dif = 0" if d == 0 else ("dif = 1" if d == 1 else "dif >= 2"), line 223 *)
CapaDif(d) == IF d = 0 THEN 1 ELSE IF d = 1 THEN 2 ELSE 3

(* color_por_diferencia, lines 212-219 *)
color_por_diferencia(d) ==
    IF d = 0 THEN "#00A600" ELSE IF d = 1 THEN "#FF9A00" ELSE "#C00000"

(* np.abs(df["intensity"] - df["IMM_t"]).astype(int), line 269 *)
Diferencia(intensity, imm_t) == Abs(intensity - imm_t)

(* f"{x:.1f}" of a distance: tenths of a kilometre, rounded *)
Fmt1(R_km) == (R_km + 5) \div 10

(* cuadrado_marker, lines 105-114 *)
cuadrado_marker(lat, lon, size, fill, tooltip) ==
    [location |-> <<lat, lon>>, icon_size |-> <<size, size>>,
     icon_anchor |-> <<size \div 2, size \div 2>>, fill |-> fill,
     tooltip |-> tooltip]

(* leyenda_evento_html, lines 116-149: the parsed date and time, the event *)
(* fields and the colour rows in the order given                           *)
leyenda_evento_html(ev, titulo_colores, items_colores) ==
    [eventid |-> ev.eventid, fecha |-> ev.origintime.fecha,
     hora |-> ev.origintime.hora, latitude |-> ev.latitude,
     longitude |-> ev.longitude, magnitude |-> ev.magnitude,
     titulo |-> titulo_colores, items |-> items_colores]

NoLeyenda ==
    [eventid |-> None, fecha |-> "", hora |-> "", latitude |-> NULL,
     longitude |-> NULL, magnitude |-> NULL, titulo |-> "", items |-> <<>>]

(* construir_tiles and the epicentre CircleMarker, lines 92-103, 157-165 *)
HijosBase == <<"Sin lugares poblados", "Lugares poblados", "Epicentro">>

NoMapa(n) ==
    [creado |-> FALSE, capas |-> [k \in 1..n |-> <<>>], hijos |-> <<>>,
     leyenda |-> NoLeyenda]

----------------------------------------------------------------------------
(* The database and the command line *)

Iso(f, h) == [iso |-> TRUE, fecha |-> f, hora |-> h]
NoIso == [iso |-> FALSE, fecha |-> "", hora |-> ""]

E1 == [eventid |-> "insi2025otmk", origintime |-> Iso("2025-07-08", "21:41:20"),
       latitude |-> 1450, longitude |-> -9050, magnitude |-> 60]
E3 == [eventid |-> "sinmagnitud", origintime |-> Iso("2025-07-08", "21:41:20"),
       latitude |-> 1450, longitude |-> -9050, magnitude |-> NULL]
E4 == [eventid |-> "sinfecha", origintime |-> NoIso,
       latitude |-> 1450, longitude |-> -9050, magnitude |-> 45]
Otro == [eventid |-> "otro", origintime |-> Iso("2024-01-01", "00:00:00"),
         latitude |-> 1480, longitude |-> -9010, magnitude |-> 45]

(* the databases and command lines of the model: the rows of eventinfo,    *)
(* --event-id, and the event most reports belong to                        *)
Casos ==
    { << <<>>, None, E1.eventid >>,
      << <<E1>>, "noexiste", E1.eventid >>,
      << <<E1>>, None, E1.eventid >>,
      << <<Otro, E1>>, E1.eventid, E1.eventid >>,
      << <<Otro, E1>>, None, E1.eventid >>,
      << <<E3>>, None, E3.eventid >>,
      << <<E1, E4>>, E4.eventid, E4.eventid >> }

NoEvento == [eventid |-> None, origintime |-> NoIso, latitude |-> NULL,
             longitude |-> NULL, magnitude |-> NULL]

Fila(e, u, la, lo, i) ==
    [eventid |-> e, userid |-> u, lat |-> la, lon |-> lo, intensity |-> i]

(* rows of intensityreports an event may have, with a row of another event *)
(* and rows without coordinates                                            *)
Filas(e) ==
    { Fila(e, "u01", 1450, -9050, 7),  Fila(e, "u02", 1480, -9010, 4),
      Fila(e, "u03", 1480, -9010, 5),  Fila(e, "u04", 1480, -9010, 3),
      Fila(e, "u05", 1480, -9010, 8),  Fila(e, "u06", 1460, -9030, 0),
      Fila(e, "u07", 1460, -9030, 11), Fila(e, "u08", 1720, -8690, 10),
      Fila(e, "u09", 1450, -9050, 1),
      Fila("otro", "u10", 1450, -9050, 6),
      Fila(e, "u11", NULL, -9050, 5),  Fila(e, "u12", 1450, NULL, 5) }

RECURSIVE SeqsUpTo(_, _)
SeqsUpTo(S, n) ==
    IF n = 0 THEN {<<>>}
    ELSE LET prev == SeqsUpTo(S, n - 1)
         IN  prev \cup {Append(q, x) : q \in {p \in prev : Len(p) = n - 1}, x \in S}

----------------------------------------------------------------------------
(* leer_evento, lines 26-40: the selected row, or NoEvento (fetchone() None) *)
Fetchone(event_id) ==
    IF event_id = None
    THEN IF Len(eventinfo) > 0 THEN eventinfo[1] ELSE NoEvento
    ELSE LET I == {i \in 1..Len(eventinfo) : eventinfo[i].eventid = event_id}
         IN  IF I = {} THEN NoEvento
             ELSE eventinfo[CHOOSE i \in I : \A j \in I : i <= j]

(* leer_reportes, lines 42-49 *)
FilaDf(r) ==
    [userid |-> r.userid, lat |-> r.lat, lon |-> r.lon, intensity |-> r.intensity,
     R_km |-> NULL, IMM_t |-> NULL, Diferencia |-> NULL]

Cumple(r, event_id) == r.eventid = event_id /\ r.lat # NULL /\ r.lon # NULL

RECURSIVE SelectSeq2(_, _)
SelectSeq2(rows, event_id) ==
    IF rows = <<>> THEN <<>>
    ELSE (IF Cumple(Head(rows), event_id) THEN <<FilaDf(Head(rows))>> ELSE <<>>)
         \o SelectSeq2(Tail(rows), event_id)

leer_reportes(event_id) == SelectSeq2(intensityreports, event_id)

(* variant of DfEmpty: the check of line 261 missing *)
DfEmptyMutante(d) == FALSE

(* df.empty, line 261 *)
DfEmpty(d) == Len(d) = 0

----------------------------------------------------------------------------
(* main, lines 247-285 *)

Init ==
    /\ \E c \in Casos :
         /\ eventinfo = c[1]
         /\ args_event_id = c[2]
         /\ intensityreports \in SeqsUpTo(Filas(c[3]), MaxReports)
    /\ pc = "abrir_conexion"
    /\ conn = "none"
    /\ cierres = 0
    /\ evento = NoEvento
    /\ df = <<>>
    /\ tramo1 = <<>>
    /\ m_int = NoMapa(10)
    /\ m_dif = NoMapa(3)
    /\ idx = 0
    /\ archivos = [out1 |-> "absent", out2 |-> "absent"]
    /\ salida = <<>>
    /\ error = "none"
    /\ llamadas = {}

Inputs == <<args_event_id, eventinfo, intensityreports>>

(* variant of Raise: the exception leaves main without the finally clause *)
RaiseMutante(kind) == pc' = "fin" /\ error' = kind

(* an exception inside the try block: control goes to the finally clause *)
Raise(kind) == pc' = "finally" /\ error' = kind

(* line 257 *)
AbrirConexion ==
    /\ pc = "abrir_conexion"
    /\ conn' = "open"
    /\ pc' = "leer_evento"
    /\ llamadas' = llamadas \cup {"abrir_conexion"}
    /\ UNCHANGED <<Inputs, cierres, evento, df, tramo1, m_int, m_dif, idx,
                   archivos, salida, error>>

(* line 259 *)
LeerEvento ==
    /\ pc = "leer_evento"
    /\ llamadas' = llamadas \cup {"leer_evento"}
    /\ LET row == Fetchone(args_event_id)
       IN  IF row = NoEvento
           THEN Raise("ValueError: no se encontro el evento") /\ UNCHANGED evento
           ELSE evento' = row /\ pc' = "leer_reportes" /\ UNCHANGED error
    /\ UNCHANGED <<Inputs, conn, cierres, df, tramo1, m_int, m_dif, idx,
                   archivos, salida>>

(* lines 260-262 *)
LeerReportes ==
    /\ pc = "leer_reportes"
    /\ llamadas' = llamadas \cup {"leer_reportes"}
    /\ df' = leer_reportes(evento.eventid)
    /\ IF DfEmpty(df')
       THEN Raise("ValueError: no hay reportes")
       ELSE pc' = "calcular_distancias" /\ UNCHANGED error
    /\ UNCHANGED <<Inputs, conn, cierres, evento, tramo1, m_int, m_dif, idx,
                   archivos, salida>>

(* line 265 *)
CalcularDistancias ==
    /\ pc = "calcular_distancias"
    /\ llamadas' = llamadas \cup {"calcular_distancias"}
    /\ df' = [i \in 1..Len(df) |->
                [df[i] EXCEPT !.R_km =
                    calcular_distancias(df[i].lat, df[i].lon,
                                        evento.latitude, evento.longitude)]]
    /\ pc' = "imm_teorica"
    /\ UNCHANGED <<Inputs, conn, cierres, evento, tramo1, m_int, m_dif, idx,
                   archivos, salida, error>>

(* lines 266-267; float(None) raises TypeError before the call *)
ImmTeorica ==
    /\ pc = "imm_teorica"
    /\ IF evento.magnitude = NULL
       THEN /\ Raise("TypeError: float(None)")
            /\ UNCHANGED <<df, tramo1, llamadas>>
       ELSE /\ llamadas' = llamadas \cup {"imm_teorica_por_tramos"}
            /\ tramo1' = [i \in 1..Len(df) |-> Tramo1(df[i].intensity)]
            /\ df' = [i \in 1..Len(df) |->
                        [df[i] EXCEPT !.IMM_t =
                            imm_teorica_por_tramos(df[i].R_km, evento.magnitude,
                                                   df[i].intensity)]]
            /\ pc' = "diferencia"
            /\ UNCHANGED error
    /\ UNCHANGED <<Inputs, conn, cierres, evento, m_int, m_dif, idx, archivos,
                   salida>>

(* line 269 *)
CalcularDiferencia ==
    /\ pc = "diferencia"
    /\ df' = [i \in 1..Len(df) |->
                [df[i] EXCEPT !.Diferencia = Diferencia(df[i].intensity, df[i].IMM_t)]]
    /\ pc' = "mi_inicio"
    /\ UNCHANGED <<Inputs, conn, cierres, evento, tramo1, m_int, m_dif, idx,
                   archivos, salida, error, llamadas>>

----------------------------------------------------------------------------
(* mapa_intensidades, lines 151-187 *)

(* lines 152-168: the map, its tiles, the epicentre and the ten empty groups *)
MI_Inicio ==
    /\ pc = "mi_inicio"
    /\ llamadas' = llamadas \cup {"mapa_intensidades"}
    /\ m_int' = [NoMapa(10) EXCEPT !.creado = TRUE, !.hijos = HijosBase]
    /\ idx' = 1
    /\ pc' = "mi_bucle"
    /\ UNCHANGED <<Inputs, conn, cierres, evento, df, tramo1, m_dif, archivos,
                   salida, error>>

(* the marker of one report on the intensity map, lines 170-177 *)
MarcadorInt(r) ==
    cuadrado_marker(r.lat, r.lon, Size(r.intensity),
                    color_por_intensidad(Nivel(r.intensity)),
                    [R |-> Fmt1(r.R_km), IMM_o |-> r.intensity])

(* one turn of the loop of lines 169-178 *)
MI_Bucle ==
    /\ pc = "mi_bucle"
    /\ idx <= Len(df)
    /\ LET r == df[idx]
           k == Nivel(r.intensity)
       IN  m_int' = [m_int EXCEPT !.capas[k] = Append(@, MarcadorInt(r))]
    /\ idx' = idx + 1
    /\ UNCHANGED <<Inputs, pc, conn, cierres, evento, df, tramo1, m_dif,
                   archivos, salida, error, llamadas>>

(* variant of CapasAgregadas: only the groups that hold a marker *)
CapasAgregadasMutante(capas) ==
    SelectSeq([k \in 1..10 |-> k], LAMBDA k : capas[k] # <<>>)

(* the groups added to the map by lines 180-181 *)
CapasAgregadas(capas) == [k \in 1..10 |-> k]

(* lines 180-183 *)
MI_Capas ==
    /\ pc = "mi_bucle"
    /\ idx > Len(df)
    /\ LET ks == CapasAgregadas(m_int.capas)
       IN  m_int' = [m_int EXCEPT !.hijos =
                        @ \o [j \in 1..Len(ks) |-> CAPA_INTENSIDAD[ks[j]]]
                          \o <<"LayerControl">>]
    /\ pc' = "mi_leyenda"
    /\ UNCHANGED <<Inputs, conn, cierres, evento, df, tramo1, m_dif, idx,
                   archivos, salida, error, llamadas>>

(* lines 184-187; datetime.fromisoformat raises ValueError on a malformed  *)
(* origintime (line 117)                                                   *)
MI_Leyenda ==
    /\ pc = "mi_leyenda"
    /\ IF evento.origintime.iso
       THEN /\ m_int' = [m_int EXCEPT !.leyenda =
                   leyenda_evento_html(evento, "Intensidad reportada",
                       [k \in 1..10 |-> <<COLOR_MAP[k], CAPA_INTENSIDAD[k]>>])]
            /\ pc' = "md_inicio"
            /\ UNCHANGED error
       ELSE Raise("ValueError: fromisoformat") /\ UNCHANGED m_int
    /\ UNCHANGED <<Inputs, conn, cierres, evento, df, tramo1, m_dif, idx,
                   archivos, salida, llamadas>>

----------------------------------------------------------------------------
(* mapa_diferencias, lines 189-244 *)

(* lines 190-210 *)
MD_Inicio ==
    /\ pc = "md_inicio"
    /\ llamadas' = llamadas \cup {"mapa_diferencias"}
    /\ m_dif' = [NoMapa(3) EXCEPT !.creado = TRUE, !.hijos = HijosBase]
    /\ idx' = 1
    /\ pc' = "md_bucle"
    /\ UNCHANGED <<Inputs, conn, cierres, evento, df, tramo1, m_int, archivos,
                   salida, error>>

(* d = int(r.Diferencia) if r.Diferencia is not None else 0, line 222 *)
D(r) == IF r.Diferencia # NULL THEN r.Diferencia ELSE 0

(* the marker of one report on the difference map, lines 224-230 *)
MarcadorDif(r) ==
    cuadrado_marker(r.lat, r.lon, Size(r.intensity), color_por_diferencia(D(r)),
                    [IMM_o |-> r.intensity, IMM_t |-> r.IMM_t, dif |-> D(r)])

(* variant of DfTrasBucle: the loop clamps the report's intensity in place *)
DfTrasBucleMutante(d, i) == [d EXCEPT ![i].intensity = Nivel(@)]

(* what one turn of the loop of lines 221-231 does to the shared DataFrame: *)
(* nothing                                                                  *)
DfTrasBucle(d, i) == d

(* one turn of the loop of lines 221-231 *)
MD_Bucle ==
    /\ pc = "md_bucle"
    /\ idx <= Len(df)
    /\ LET r == df[idx]
       IN  m_dif' = [m_dif EXCEPT !.capas[CapaDif(D(r))] = Append(@, MarcadorDif(r))]
    /\ df' = DfTrasBucle(df, idx)
    /\ idx' = idx + 1
    /\ UNCHANGED <<Inputs, pc, conn, cierres, evento, tramo1, m_int, archivos,
                   salida, error, llamadas>>

(* lines 233-235 *)
MD_Capas ==
    /\ pc = "md_bucle"
    /\ idx > Len(df)
    /\ m_dif' = [m_dif EXCEPT !.hijos = @ \o NombresDif \o <<"LayerControl">>]
    /\ pc' = "md_leyenda"
    /\ UNCHANGED <<Inputs, conn, cierres, evento, df, tramo1, m_int, idx,
                   archivos, salida, error, llamadas>>

(* lines 237-244 *)
MD_Leyenda ==
    /\ pc = "md_leyenda"
    /\ IF evento.origintime.iso
       THEN /\ m_dif' = [m_dif EXCEPT !.leyenda =
                   leyenda_evento_html(evento, "Nivel de diferencia",
                       <<<<"#00A600", NombresDif[1]>>, <<"#FF9A00", NombresDif[2]>>,
                         <<"#C00000", NombresDif[3]>>>>)]
            /\ pc' = "guardar1"
            /\ UNCHANGED error
       ELSE Raise("ValueError: fromisoformat") /\ UNCHANGED m_dif
    /\ UNCHANGED <<Inputs, conn, cierres, evento, df, tramo1, m_int, idx,
                   archivos, salida, llamadas>>

----------------------------------------------------------------------------
(* Output, lines 276-285 *)

(* what a failed save may leave of its file: nothing, or a truncated file *)
RestosDeFallo == {"absent", "partial"}

(* m_int.save(out1), line 279: the file system lets it succeed or fail *)
Guardar1 ==
    /\ pc = "guardar1"
    /\ \/ /\ archivos' = [archivos EXCEPT !.out1 = "written"]
          /\ pc' = "guardar2"
          /\ UNCHANGED error
       \/ /\ \E f \in RestosDeFallo : archivos' = [archivos EXCEPT !.out1 = f]
          /\ Raise("OSError: save out1")
    /\ UNCHANGED <<Inputs, conn, cierres, evento, df, tramo1, m_int, m_dif, idx,
                   salida, llamadas>>

(* variant of Guardar2 that saves to out1 again *)
Guardar2Mutante ==
    /\ pc = "guardar2"
    /\ \/ /\ archivos' = [archivos EXCEPT !.out1 = "written"]
          /\ pc' = "imprimir"
          /\ UNCHANGED error
       \/ /\ \E f \in RestosDeFallo : archivos' = [archivos EXCEPT !.out1 = f]
          /\ Raise("OSError: save out2")
    /\ UNCHANGED <<Inputs, conn, cierres, evento, df, tramo1, m_int, m_dif, idx,
                   salida, llamadas>>

(* m_dif.save(out2), line 280 *)
Guardar2 ==
    /\ pc = "guardar2"
    /\ \/ /\ archivos' = [archivos EXCEPT !.out2 = "written"]
          /\ pc' = "imprimir"
          /\ UNCHANGED error
       \/ /\ \E f \in RestosDeFallo : archivos' = [archivos EXCEPT !.out2 = f]
          /\ Raise("OSError: save out2")
    /\ UNCHANGED <<Inputs, conn, cierres, evento, df, tramo1, m_int, m_dif, idx,
                   salida, llamadas>>

(* line 283 *)
Imprimir ==
    /\ pc = "imprimir"
    /\ salida' = <<"Archivos generados:", "out1", "out2">>
    /\ pc' = "finally"
    /\ UNCHANGED <<Inputs, conn, cierres, evento, df, tramo1, m_int, m_dif, idx,
                   archivos, error, llamadas>>

(* finally: conn.close(), lines 284-285 *)
Finally ==
    /\ pc = "finally"
    /\ conn' = "closed"
    /\ cierres' = cierres + 1
    /\ pc' = "fin"
    /\ UNCHANGED <<Inputs, evento, df, tramo1, m_int, m_dif, idx, archivos,
                   salida, error, llamadas>>

Next ==
    \/ AbrirConexion
    \/ LeerEvento
    \/ LeerReportes
    \/ CalcularDistancias
    \/ ImmTeorica
    \/ CalcularDiferencia
    \/ MI_Inicio
    \/ MI_Bucle
    \/ MI_Capas
    \/ MI_Leyenda
    \/ MD_Inicio
    \/ MD_Bucle
    \/ MD_Capas
    \/ MD_Leyenda
    \/ Guardar1
    \/ Guardar2
    \/ Imprimir
    \/ Finally

Spec == Init /\ [][Next]_vars

----------------------------------------------------------------------------
(* Direct calls of imm_teorica_por_tramos: besides the runs of main, the   *)
(* function is applied to two reports, for distances that are negative,    *)
(* zero, tiny and very large and magnitudes down to -100, and the result   *)
(* is stored as main stores it (lines 266-269).                            *)

Distancias == {-500, 0, 1, 100, 2459, 5500, 20000, 150000}
Magnitudes == {-1000, -20, 0, 45, 60, 95}
Observadas == {0, 4, 5, 12}

InitFn ==
    /\ \E R1 \in Distancias, R2 \in Distancias, o1 \in Observadas, o2 \in Observadas :
         df = << [userid |-> "u01", lat |-> 1450, lon |-> -9050, intensity |-> o1,
                  R_km |-> R1, IMM_t |-> NULL, Diferencia |-> NULL],
                 [userid |-> "u02", lat |-> 1450, lon |-> -9050, intensity |-> o2,
                  R_km |-> R2, IMM_t |-> NULL, Diferencia |-> NULL] >>
    /\ \E M \in Magnitudes : evento = [E1 EXCEPT !.magnitude = M]
    /\ eventinfo = <<E1>>
    /\ args_event_id = None
    /\ intensityreports = <<>>
    /\ pc = "imm_teorica"
    /\ conn = "open"
    /\ cierres = 0
    /\ tramo1 = <<>>
    /\ m_int = NoMapa(10)
    /\ m_dif = NoMapa(3)
    /\ idx = 0
    /\ archivos = [out1 |-> "absent", out2 |-> "absent"]
    /\ salida = <<>>
    /\ error = "none"
    /\ llamadas = {"abrir_conexion", "leer_evento", "leer_reportes",
                   "calcular_distancias"}

SpecFn == (Init \/ InitFn) /\ [][Next]_vars

----------------------------------------------------------------------------
(* Properties *)

Filas_df == 1..Len(df)

(* C1: every value imm_teorica_por_tramos returns, for any distance        *)
(* (negative, zero, very large), any magnitude (very negative too) and any *)
(* observed intensity, is an integer >= 1, so every IMM_t main stores is   *)
(* >= 1.                                                                   *)
C1_ImmAlMenosUno ==
    \A i \in Filas_df :
        df[i].IMM_t # NULL => df[i].IMM_t \in Int /\ df[i].IMM_t >= 1

(* C1 witness: a report 1500 km away with magnitude -100, whose formula    *)
(* value is far below 1, and a report at a non-positive distance, both     *)
(* stored.                                                                 *)
C1_Testigo ==
    /\ \E i \in Filas_df :
         /\ df[i].R_km = 150000 /\ evento.magnitude = -1000
         /\ Floor(val2(df[i].R_km, evento.magnitude)) < 1
         /\ df[i].IMM_t = 1
    /\ \E i \in Filas_df :
         /\ df[i].R_km < 0
         /\ Floor(val1(df[i].R_km, evento.magnitude)) < 1
         /\ df[i].IMM_t = 1

(* C2: formula A (val1) is used exactly for observed intensities <= 4.22   *)
(* (integers up to 4) and formula B (val2) exactly above (5 and more),     *)
(* whatever the distance and the magnitude.                                *)
C2_FormulaPorObservada ==
    \A i \in Filas_df :
        df[i].IMM_t # NULL =>
            /\ tramo1[i] <=> (df[i].intensity <= 4)
            /\ df[i].IMM_t =
                 Max(1, (IF df[i].intensity <= 4
                         THEN val1(df[i].R_km, evento.magnitude)
                         ELSE val2(df[i].R_km, evento.magnitude)) \div 1000000)

(* C2 witness: two reports with the same distance and magnitude, observed  *)
(* 4 and 5, that took different formulas and got different predictions.    *)
C2_Testigo ==
    \E i \in Filas_df, j \in Filas_df :
        /\ df[i].R_km = df[j].R_km
        /\ df[i].intensity = 4 /\ df[j].intensity = 5
        /\ df[i].IMM_t # NULL /\ df[j].IMM_t # NULL
        /\ tramo1[i] /\ ~tramo1[j]
        /\ df[i].IMM_t # df[j].IMM_t

(* the layer of an observed intensity and of a residual, as the rules state *)
NivelEsperado(i) == IF i < 1 THEN 1 ELSE IF i > 10 THEN 10 ELSE i
CapaEsperada(d) == IF d = 0 THEN 1 ELSE IF d = 1 THEN 2 ELSE 3
Resta(a, b) == IF a >= b THEN a - b ELSE b - a

RECURSIVE Suma(_, _)
Suma(capas, n) == IF n = 0 THEN 0 ELSE Len(capas[n]) + Suma(capas, n - 1)

(* mapa_intensidades, mapa_diferencias have returned their map *)
MapaIntListo == m_int.leyenda # NoLeyenda
MapaDifListo == m_dif.leyenda # NoLeyenda

(* C3: the residual main stores is abs(observed - predicted), a            *)
(* non-negative integer, and mapa_diferencias puts each report in the      *)
(* layer of its residual: 0 -> "dif = 0", 1 -> "dif = 1", >= 2 -> the      *)
(* third layer.                                                            *)
C3_ResidualYCapa ==
    /\ \A i \in Filas_df :
         df[i].Diferencia # NULL =>
            /\ df[i].Diferencia = Resta(df[i].intensity, df[i].IMM_t)
            /\ df[i].Diferencia \in Nat
    /\ \A c \in 1..3 : \A j \in 1..Len(m_dif.capas[c]) :
         LET t == m_dif.capas[c][j].tooltip
         IN  /\ t.dif = Resta(t.IMM_o, t.IMM_t)
             /\ (c = 1) <=> (t.dif = 0)
             /\ (c = 2) <=> (t.dif = 1)
             /\ (c = 3) <=> (t.dif >= 2)

(* C3 witness: the finished difference map holds a report of residual 0    *)
(* and one of residual >= 2.                                               *)
C3_Testigo ==
    /\ MapaDifListo
    /\ \E i \in Filas_df : df[i].Diferencia = 0
    /\ \E i \in Filas_df : df[i].Diferencia >= 2 /\ df[i].intensity < df[i].IMM_t
    /\ Len(m_dif.capas[1]) = 1 /\ Len(m_dif.capas[3]) = 1

(* the reports of df that belong in intensity layer k, residual layer c *)
FilasNivel(k) == SelectSeq(df, LAMBDA r : NivelEsperado(r.intensity) = k)
FilasCapa(c) ==
    SelectSeq(df, LAMBDA r : CapaEsperada(Resta(r.intensity, r.IMM_t)) = c)

MismoReporte(m, r) ==
    m.location = <<r.lat, r.lon>> /\ m.tooltip.IMM_o = r.intensity

(* C4: once both builders have returned, every report has exactly one      *)
(* marker in exactly one of the 10 intensity layers (that of its observed  *)
(* intensity clamped into 1..10) and exactly one in one of the 3 residual  *)
(* layers, and the markers of the 10 layers, and of the 3, add up to the   *)
(* number of reports.                                                      *)
C4_Particion ==
    /\ MapaIntListo =>
         /\ \A k \in 1..10 :
              /\ Len(m_int.capas[k]) = Len(FilasNivel(k))
              /\ \A j \in 1..Len(m_int.capas[k]) :
                   MismoReporte(m_int.capas[k][j], FilasNivel(k)[j])
         /\ Suma(m_int.capas, 10) = Len(df)
    /\ MapaDifListo =>
         /\ \A c \in 1..3 :
              /\ Len(m_dif.capas[c]) = Len(FilasCapa(c))
              /\ \A j \in 1..Len(m_dif.capas[c]) :
                   MismoReporte(m_dif.capas[c][j], FilasCapa(c)[j])
         /\ Suma(m_dif.capas, 3) = Len(df)

(* C4 witness: both maps finished for two reports, one of them observed    *)
(* above 10 and placed in layer 10, the other below 1 and placed in 1.     *)
C4_Testigo ==
    /\ MapaIntListo /\ MapaDifListo
    /\ Len(df) = 2
    /\ \E i \in Filas_df : df[i].intensity > 10
    /\ \E i \in Filas_df : df[i].intensity < 1
    /\ Len(m_int.capas[10]) = 1 /\ Len(m_int.capas[1]) = 1

(* observed intensity and marker size of every marker of both maps *)
Marcas(m, n) ==
    UNION { { <<m.capas[k][j].tooltip.IMM_o, m.capas[k][j].icon_size[1]>> :
                j \in 1..Len(m.capas[k]) } : k \in 1..n }

PasosSobre3(i) == IF i <= 3 THEN 0 ELSE IF i >= 8 THEN 5 ELSE i - 3

(* C5: in both maps the marker size is 6 + 2 * (steps of observed          *)
(* intensity above 3, at most 5): 6 up to intensity 3, non-decreasing in   *)
(* the observed intensity, and 16 from intensity 8 on; the difference map  *)
(* sizes by the observed intensity too.                                    *)
C5_Tamano ==
    LET todas == Marcas(m_int, 10) \cup Marcas(m_dif, 3)
    IN  /\ \A a \in todas :
             /\ a[2] = 6 + 2 * PasosSobre3(a[1])
             /\ a[1] <= 3 => a[2] = 6
             /\ a[1] >= 8 => a[2] = 16
        /\ \A a \in todas, b \in todas : a[1] <= b[1] => a[2] <= b[2]

(* C5 witness: the difference map holds a marker of observed intensity 11  *)
(* and one of intensity 0, the intensity map too.                          *)
C5_Testigo ==
    /\ {<<11, 16>>, <<0, 6>>} \subseteq Marcas(m_dif, 3)
    /\ {<<11, 16>>, <<0, 6>>} \subseteq Marcas(m_int, 10)

ErroresDeGuardado == {"OSError: save out1", "OSError: save out2"}
SinArchivos == archivos.out1 = "absent" /\ archivos.out2 = "absent"

(* C6 as claimed: a run that ends in an error, at any step, has written    *)
(* neither output file.                                                    *)
C6_Original ==
    (pc = "fin" /\ error # "none") =>
        archivos.out1 # "written" /\ archivos.out2 # "written"

(* C6 amended: a run that ends in an error raised before the first save    *)
(* (event not found, no reports, a failure while computing or building a   *)
(* map) has written neither file, out2 is written only after out1, and a   *)
(* run that ends without error has written both.                           *)
C6_SinSalidaParcialAntesDeGuardar ==
    /\ (error # "none" /\ error \notin ErroresDeGuardado) => SinArchivos
    /\ archivos.out2 # "absent" => archivos.out1 = "written"
    /\ (pc = "fin" /\ error = "none") =>
          archivos.out1 = "written" /\ archivos.out2 = "written"

(* C6 witness: a run ended by a failure of mapa_intensidades with nothing  *)
(* written.                                                                *)
C6_Testigo ==
    /\ pc = "fin" /\ error = "ValueError: fromisoformat"
    /\ m_int.creado /\ SinArchivos

(* C7: a map is built and a file written only after leer_evento returned a *)
(* row and leer_reportes a non-empty collection; an absent event ends main *)
(* before any report is read or value computed, an event without reports   *)
(* before any distance is computed or map built.                           *)
C7_OrdenDeFallos ==
    /\ (m_int.creado \/ m_dif.creado \/ ~SinArchivos) =>
          /\ evento # NoEvento
          /\ Len(df) > 0
          /\ {"leer_evento", "leer_reportes"} \subseteq llamadas
    /\ error = "ValueError: no se encontro el evento" =>
          /\ evento = NoEvento /\ df = <<>>
          /\ llamadas = {"abrir_conexion", "leer_evento"}
          /\ ~m_int.creado /\ ~m_dif.creado /\ SinArchivos
    /\ error = "ValueError: no hay reportes" =>
          /\ evento # NoEvento /\ df = <<>>
          /\ llamadas = {"abrir_conexion", "leer_evento", "leer_reportes"}
          /\ ~m_int.creado /\ ~m_dif.creado /\ SinArchivos
    /\ (pc \notin {"abrir_conexion", "leer_evento"}
          /\ ~\E i \in 1..Len(eventinfo) :
                args_event_id \in {None, eventinfo[i].eventid})
          => error = "ValueError: no se encontro el evento"
    /\ (pc \notin {"abrir_conexion", "leer_evento", "leer_reportes"}
          /\ evento # NoEvento
          /\ ~\E i \in 1..Len(intensityreports) :
                /\ intensityreports[i].eventid = evento.eventid
                /\ intensityreports[i].lat # NULL
                /\ intensityreports[i].lon # NULL)
          => error = "ValueError: no hay reportes"

(* C7 witness: the event exists and the table has rows, none of them a     *)
(* report of the event with coordinates; main has ended on the             *)
(* empty-dataset error.                                                    *)
C7_Testigo ==
    /\ pc = "fin" /\ error = "ValueError: no hay reportes"
    /\ evento # NoEvento /\ Len(intensityreports) = 2

(* C8: mapa_intensidades adds to its map one layer for each of the levels  *)
(* 1..10, in that order, whatever intensities the reports have.            *)
C8_DiezCapas ==
    (\E j \in 1..Len(m_int.hijos) : m_int.hijos[j] = "LayerControl") =>
        m_int.hijos = HijosBase \o CAPA_INTENSIDAD \o <<"LayerControl">>

(* C8 witness: a finished intensity map with one report: nine of its ten   *)
(* layers are empty.                                                       *)
C8_Testigo ==
    /\ MapaIntListo /\ Len(df) = 1
    /\ Cardinality({k \in 1..10 : m_int.capas[k] = <<>>}) = 9
    /\ Len(m_int.hijos) = 14

EnMapaInt == pc \in {"mi_inicio", "mi_bucle", "mi_leyenda"}
EnMapaDif == pc \in {"md_inicio", "md_bucle", "md_leyenda"}

(* C9: no step of mapa_intensidades or mapa_diferencias changes the        *)
(* reports or the event; each changes only its own map.                    *)
C9_SoloSuMapa ==
    [][ /\ (EnMapaInt \/ EnMapaDif) => df' = df /\ evento' = evento
        /\ EnMapaInt => m_dif' = m_dif
        /\ EnMapaDif => m_int' = m_int ]_vars

(* C9 witness: both maps are built from reports whose observed intensity   *)
(* lies outside 1..10, and the reports still hold it.                      *)
C9_Testigo ==
    /\ MapaIntListo /\ MapaDifListo
    /\ \E i \in Filas_df : df[i].intensity > 10
    /\ \E i \in Filas_df : df[i].Diferencia # NULL

(* C10: the connection main opened is closed exactly once when main ends,  *)
(* on every path, and is open until then.                                  *)
C10_CierreUnico ==
    /\ cierres <= 1
    /\ pc = "fin" => conn = "closed" /\ cierres = 1
    /\ pc \notin {"abrir_conexion", "fin"} => conn = "open" /\ cierres = 0

(* C10 witness: main ended by a failure of the second save, connection     *)
(* closed.                                                                 *)
C10_Testigo ==
    /\ pc = "fin" /\ error = "OSError: save out2"
    /\ conn = "closed" /\ cierres = 1

====
